---------------------------- MODULE Spec2Model ----------------------------
(***************************************************************************)
(* Hashy (src/index.js): password hashing policy layer.                    *)
(*                                                                         *)
(* Strings that the code parses (hash strings, algorithm identifiers) are  *)
(* sequences of one-character strings, so that the regular expressions and *)
(* the decimal conversion are computed, not assumed.  The salt and digest  *)
(* of a bcrypt hash are abstracted to one payload symbol that names the    *)
(* password it was derived from.                                           *)
(*                                                                         *)
(* JavaScript values: an object is a function from its own keys to their   *)
(* values; `undefined` in an object position is the record Undefined; an   *)
(* optional scalar is a sequence of length 0 (undefined) or 1.             *)
(***************************************************************************)
EXTENDS Integers, Sequences, FiniteSets, TLC

VARIABLES
    globalOptions,  \* exports.options (index.js:143-152)
    assigned,       \* history: the value the embedder last gave options.bcrypt
    calls,          \* invocations of exports.hash / exports.verify
    sync            \* the latest getInfo / needsRehash invocation and its outcome

vars == <<globalOptions, assigned, calls, sync>>

\* ------------------------------------------------------------------ bounds

\* Number of exports.hash / exports.verify invocations that can be outstanding
\* at once when the calls are issued concurrently (SpecConc).
NCalls == 2

\* The same, when every argument combination is explored (Spec).
NSlots == 1

\* ------------------------------------------------------- JavaScript values

Undefined == [undefined |-> TRUE]

EmptyObject == [k \in {} |-> 0]

\* obj[key], as an optional: << >> when obj is undefined or lacks the key.
prop(obj, key) == IF key \in DOMAIN obj THEN <<obj[key]>> ELSE << >>

Return(v) == [kind |-> "return", value |-> v]

Throw(e) == [kind |-> "throw", error |-> e]

Range(s) == {s[i] : i \in DOMAIN s}

\* ------------------------------------------------------------ characters

DigitChars == <<"0", "1", "2", "3", "4", "5", "6", "7", "8", "9">>

isDigit(c) == c \in Range(DigitChars)

digitValue(c) == (CHOOSE i \in DOMAIN DigitChars : DigitChars[i] = c) - 1

\* Unary plus on a string of decimal digits (index.js:50).
RECURSIVE toNumber(_)
toNumber(ds) ==
    IF ds = << >> THEN 0
    ELSE toNumber(SubSeq(ds, 1, Len(ds) - 1)) * 10 + digitValue(ds[Len(ds)])

\* ---------------------------------------------------------------- assign

\* The keys of `source` visited by for-in + hasOwnProperty (index.js:66-67);
\* for-in over undefined visits nothing.
ownKeys(source) == IF source = Undefined THEN {} ELSE DOMAIN source

\* One pass of the inner loop: target[key] = source[key] for every own key.
assignOne(target, source) ==
    [k \in DOMAIN target \cup ownKeys(source) |->
        IF k \in ownKeys(source) THEN source[k] ELSE target[k]]

\* assign(target, source...) (index.js:61-74): later sources overwrite.
RECURSIVE assign(_, _)
assign(target, sources) ==
    IF sources = << >> THEN target
    ELSE assign(assignOne(target, Head(sources)), Tail(sources))

\* ----------------------------------------------------------------- codec

idsByAlgo == [bcrypt |-> << <<"2">>, <<"2", "a">>, <<"2", "x">>, <<"2", "y">> >>]

\* index.js:110-128: every identifier indexed to the algorithm that lists it.
IDENTS_TO_ALGOS ==
    [id \in UNION {Range(idsByAlgo[a]) : a \in DOMAIN idsByAlgo} |->
        CHOOSE a \in DOMAIN idsByAlgo : id \in Range(idsByAlgo[a])]

\* Position of the '$' closing the leading token of /^\$([^$]+)\$/, or 0
\* when the string does not match.
tokenEnd(hash) ==
    LET ends == {j \in 3..Len(hash) :
                    /\ hash[1] = "$"
                    /\ hash[j] = "$"
                    /\ \A k \in 2..(j - 1) : hash[k] # "$"}
    IN  IF ends = {} THEN 0 ELSE CHOOSE j \in ends : TRUE

\* getAlgoId (index.js:130-139).
getAlgoId(hash) ==
    LET j == tokenEnd(hash)
    IN  IF j = 0 THEN Throw("invalid hash")
        ELSE Return(SubSeq(hash, 2, j - 1))

\* Position of the '$' closing (\d+) in /^\$[^$]+\$(\d+)\$/, or 0 when the
\* string does not match.
roundsEnd(hash) ==
    LET j == tokenEnd(hash)
        ends == {m \in (j + 2)..Len(hash) :
                    /\ j # 0
                    /\ hash[m] = "$"
                    /\ \A k \in (j + 1)..(m - 1) : isDigit(hash[k])}
    IN  IF ends = {} THEN 0 ELSE CHOOSE m \in ends : TRUE

\* Bug variant of getRounds: a string without a decimal cost field yields 0.
getRounds_zero(hash) ==
    LET m == roundsEnd(hash)
    IN  IF m = 0 THEN Return(0)
        ELSE Return(toNumber(SubSeq(hash, tokenEnd(hash) + 1, m - 1)))

\* getRounds of the twin-bcrypt binding (index.js:41-51).
getRounds(hash) ==
    LET m == roundsEnd(hash)
    IN  IF m = 0 THEN Throw("invalid hash")
        ELSE Return(toNumber(SubSeq(hash, tokenEnd(hash) + 1, m - 1)))

UnknownId == <<"u", "n", "k", "n", "o", "w", "n">>

\* Bug variant of getInfo: an identifier without an algorithm is an error.
getInfo_strict(hash) ==
    LET algoId == getAlgoId(hash)
    IN  IF algoId.kind = "throw" THEN algoId
        ELSE IF prop(IDENTS_TO_ALGOS, algoId.value) = <<"bcrypt">>
        THEN LET rounds == getRounds(hash)
             IN  IF rounds.kind = "throw" THEN rounds
                 ELSE Return([algo |-> "bcrypt",
                              id |-> algoId.value,
                              options |-> [cost |-> rounds.value]])
        ELSE Throw("unsupported algorithm")

\* Bug variant of getInfo: the decoded identifier is reported for every hash.
getInfo_rawId(hash) ==
    LET algoId == getAlgoId(hash)
    IN  IF algoId.kind = "throw" THEN algoId
        ELSE IF prop(IDENTS_TO_ALGOS, algoId.value) = <<"bcrypt">>
        THEN LET rounds == getRounds(hash)
             IN  IF rounds.kind = "throw" THEN rounds
                 ELSE Return([algo |-> "bcrypt",
                              id |-> algoId.value,
                              options |-> [cost |-> rounds.value]])
        ELSE Return([algo |-> "unknown", id |-> algoId.value, options |-> EmptyObject])

\* getInfo (index.js:186-205).
getInfo(hash) ==
    LET algoId == getAlgoId(hash)
    IN  IF algoId.kind = "throw" THEN algoId
        ELSE IF prop(IDENTS_TO_ALGOS, algoId.value) = <<"bcrypt">>
        THEN LET rounds == getRounds(hash)
             IN  IF rounds.kind = "throw" THEN rounds
                 ELSE Return([algo |-> "bcrypt",
                              id |-> algoId.value,
                              options |-> [cost |-> rounds.value]])
        ELSE Return([algo |-> "unknown", id |-> UnknownId, options |-> EmptyObject])


\* ------------------------------------------------------------ policy store

DEFAULT_ALGO == "bcrypt"

\* The values the embedder assigns to options.bcrypt.cost in this model.
PolicyCosts == {10, 12}

\* options.bcrypt.cost = c (README "Changing default options").
SetCost(c) ==
    /\ globalOptions' =
           [globalOptions EXCEPT !.bcrypt = assignOne(@, [cost |-> c])]
    /\ assigned' = assignOne(assigned, [cost |-> c])
    /\ UNCHANGED <<calls, sync>>

\* delete options.bcrypt.cost: the store is a plain object the embedder owns.
DeleteCost ==
    /\ "cost" \in DOMAIN globalOptions.bcrypt
    /\ globalOptions' =
           [globalOptions EXCEPT !.bcrypt = [k \in DOMAIN @ \ {"cost"} |-> @[k]]]
    /\ assigned' = [k \in DOMAIN assigned \ {"cost"} |-> assigned[k]]
    /\ UNCHANGED <<calls, sync>>

\* ---------------------------------------------------------- rehash advisor

\* algo || (algo = DEFAULT_ALGO) (index.js:167, 223): undefined and '' are falsy.
effectiveAlgo(algo) ==
    IF algo = << >> \/ algo = <<"">> THEN DEFAULT_ALGO ELSE algo[1]

\* Bug variant of rehashFloor: the caller's options are ignored.
rehashFloor_policyOnly(options, store) == prop(store.bcrypt, "cost")

\* Bug variant of rehashFloor: the default is the cost the module was loaded
\* with, not the store's current one.
rehashFloor_frozen(options, store) ==
    IF prop(options, "cost") # << >> /\ options.cost # 0
    THEN <<options.cost>>
    ELSE prop([cost |-> 10], "cost")

\* options && options.cost || globalOptions.bcrypt.cost (index.js:232), as a
\* function of the store it reads.
rehashFloor(options, store) ==
    IF prop(options, "cost") # << >> /\ options.cost # 0
    THEN <<options.cost>>
    ELSE prop(store.bcrypt, "cost")

\* x < y in JavaScript with y possibly undefined (NaN compares false).
jsLess(x, y) == y # << >> /\ x < y[1]

\* The body of needsRehash (index.js:220-237), as a function of the store.
needsRehashIn(store, hash, algo, options) ==
    LET info == getInfo(hash)
        a == effectiveAlgo(algo)
    IN  IF info.kind = "throw" THEN info
        ELSE IF info.value.algo # a THEN Return(TRUE)
        ELSE IF a = "bcrypt"
        THEN Return(\/ info.value.id # <<"2", "y">>
                    \/ jsLess(info.value.options.cost, rehashFloor(options, store)))
        ELSE Return(FALSE)

\* needsRehash (index.js:220-237): it reads the module's globalOptions.
needsRehash(hash, algo, options) == needsRehashIn(globalOptions, hash, algo, options)

\* --------------------------------------------------- the bcrypt primitive

\* The cost field of a bcrypt hash string: two decimal digits.
twoDigits(c) == <<DigitChars[(c \div 10) + 1], DigitChars[(c % 10) + 1]>>

\* What the binding's hash resolves to: '$2y$' cost '$' salt+digest, the
\* payload abstracted to the password it was derived from (index.js:52).
bcryptHash(password, cost) ==
    <<"$", "2", "y", "$">> \o twoDigits(cost) \o <<"$", password>>

\* What the binding's compare resolves to (index.js:44).
bcryptCompare(password, hash) == hash[Len(hash)] = password

\* ------------------------------------------------- hashing / verification

\* Bug variant of hashMerge: the sources in the other order, the caller wins.
hashMerge_callerWins(options) ==
    [merged |-> assign(EmptyObject, <<globalOptions.bcrypt, options>>),
     options |-> options,
     store |-> globalOptions.bcrypt]

\* Bug variant of hashMerge: the caller's object is the target of the merge.
hashMerge_inPlace(options) ==
    IF options = Undefined
    THEN [merged |-> assign(EmptyObject, <<globalOptions.bcrypt>>),
          options |-> options,
          store |-> globalOptions.bcrypt]
    ELSE [merged |-> assign(options, <<globalOptions.bcrypt>>),
          options |-> assign(options, <<globalOptions.bcrypt>>),
          store |-> globalOptions.bcrypt]

\* options = assign({}, options, globalOptions.bcrypt) (index.js:170): the
\* merged object, and the caller's object and the store after the statement.
hashMerge(options) ==
    [merged |-> assign(EmptyObject, <<options, globalOptions.bcrypt>>),
     options |-> options,
     store |-> globalOptions.bcrypt]

\* hash (index.js:166-175): what the function returns or throws (a returned
\* value is the primitive call it made), and the objects it could reach.
hash(password, algo, options) ==
    IF effectiveAlgo(algo) = "bcrypt"
    THEN LET m == hashMerge(options)
         IN  [outcome |-> Return([fn |-> "hash", password |-> password,
                                  cost |-> prop(m.merged, "cost")]),
              options |-> m.options,
              store |-> m.store]
    ELSE [outcome |-> Throw("unsupported algorithm"),
          options |-> options,
          store |-> globalOptions.bcrypt]

\* Bug variant of verify: the test of the decoded algorithm is inverted.
verify_inverted(password, hashString) ==
    LET info == getInfo(hashString)
    IN  IF info.kind = "throw" THEN info
        ELSE IF info.value.algo # "bcrypt"
        THEN Return([fn |-> "compare", password |-> password, hash |-> hashString])
        ELSE Throw("unsupported algorithm")

\* verify (index.js:249-257).
verify(password, hashString) ==
    LET info == getInfo(hashString)
    IN  IF info.kind = "throw" THEN info
        ELSE IF info.value.algo = "bcrypt"
        THEN Return([fn |-> "compare", password |-> password, hash |-> hashString])
        ELSE Throw("unsupported algorithm")

\* ---------------------------------------------------------- async wrapper

\* Bug variant of asyncWrapper: fn is called before the promise is made, so
\* what it throws reaches the caller.
asyncWrapper_noCatch(outcome) ==
    IF outcome.kind = "throw"
    THEN [escaped |-> TRUE, job |-> << >>, promise |-> [state |-> "none"]]
    ELSE [escaped |-> FALSE, job |-> <<outcome.value>>,
          promise |-> [state |-> "pending"]]

\* asyncWrapper (index.js:91-104): fn runs inside the Promise executor, so a
\* throw rejects the promise; a returned primitive promise is adopted.
asyncWrapper(outcome) ==
    IF outcome.kind = "throw"
    THEN [escaped |-> FALSE, job |-> << >>,
          promise |-> [state |-> "rejected", error |-> outcome.error]]
    ELSE [escaped |-> FALSE, job |-> <<outcome.value>>,
          promise |-> [state |-> "pending"]]

\* asCallback.call(promise, callback) (index.js:101-103): who is told of the
\* settled promise, and in which slot.  The reaction runs in the microtask
\* that follows settlement, before any other operation of the module.
asCallback(promise, style) ==
    IF promise.state \in {"pending", "none"} THEN [to |-> "nobody", slot |-> "none"]
    ELSE [to |-> IF style = "callback" THEN "callback" ELSE "promise",
          slot |-> IF promise.state = "rejected" THEN "error" ELSE "value"]

NoCall == [op |-> "none"]

\* Slot i holds no call whose outcome is still awaited.
Free(i) == IF calls[i].op = "none" THEN TRUE ELSE calls[i].promise.state # "pending"

Issue(i, op, password, algo, given, hashString, style, options, w) ==
    calls' = [calls EXCEPT ![i] =
                [op |-> op, password |-> password, algo |-> algo, given |-> given,
                 hash |-> hashString, style |-> style, options |-> options,
                 overlapped |-> \E j \in DOMAIN calls \ {i} : ~Free(j),
                 escaped |-> w.escaped, job |-> w.job,
                 promise |-> IF w.escaped THEN [state |-> "none"] ELSE w.promise,
                 delivered |-> IF w.escaped THEN [to |-> "nobody", slot |-> "none"]
                               ELSE asCallback(w.promise, style)]]

\* exports.hash(password, algo, options[, callback]) (index.js:176).
HashCall(i, password, algo, options, style) ==
    LET r == hash(password, algo, options)
    IN  /\ Free(i)
        /\ Issue(i, "hash", password, algo, options, << >>, style, r.options,
                 asyncWrapper(r.outcome))
        /\ globalOptions' = [globalOptions EXCEPT !.bcrypt = r.store]
        /\ UNCHANGED <<assigned, sync>>

\* exports.verify(password, hash[, callback]) (index.js:258).
VerifyCall(i, password, hashString, style) ==
    /\ Free(i)
    /\ Issue(i, "verify", password, << >>, Undefined, hashString, style, Undefined,
             asyncWrapper(verify(password, hashString)))
    /\ UNCHANGED <<globalOptions, assigned, sync>>

\* The primitive completes the work of call i.  A hash job whose cost is
\* undefined is outside the binding's contract: it fails or uses a cost of
\* the primitive's choosing.
Settle(i) ==
    /\ calls[i].op # "none"
    /\ calls[i].promise.state = "pending"
    /\ \E p \in
           LET job == calls[i].job[1]
           IN  IF job.fn = "compare"
               THEN {[state |-> "fulfilled",
                      value |-> bcryptCompare(job.password, job.hash)]}
               ELSE IF job.cost # << >>
               THEN {[state |-> "fulfilled",
                      value |-> bcryptHash(job.password, job.cost[1])]}
               ELSE {[state |-> "rejected", error |-> "primitive failure"]}
                    \cup {[state |-> "fulfilled", value |-> bcryptHash(job.password, c)] :
                             c \in PolicyCosts} :
           calls' = [calls EXCEPT ![i].promise = p,
                                  ![i].delivered = asCallback(p, calls[i].style)]
    /\ UNCHANGED <<globalOptions, assigned, sync>>

\* --------------------------------------------------------------- inputs

Passwords == {"p1", "p2"}

Styles == {"promise", "callback"}

Tokens == {<<"2", "a">>, <<"2", "y">>, <<"2", "b">>}

HashCosts == {8, 10}

CostFields == {twoDigits(c) : c \in HashCosts} \cup {<< >>, <<"1", "x">>}

WellDelimited ==
    {<<"$">> \o t \o <<"$">> \o f \o <<"$", "p1">> : t \in Tokens, f \in CostFields}

Malformed ==
    { << >>,
      <<"n", "o", "t", "-", "a", "-", "h", "a", "s", "h">>,
      <<"$", "$", "x">>,
      <<"$", "2", "y">>,
      <<"$", "2", "y", "$", "1", "0">> }

HashInputs == WellDelimited \cup Malformed

AlgoArgs == {<< >>, <<"bcrypt">>, <<"unknown">>}

OptionArgs == {Undefined, EmptyObject, [cost |-> 0], [cost |-> 8], [cost |-> 12]}

HashAlgoArgs == {<< >>, <<"bcrypt">>, <<"argon2">>}

HashOptionArgs == {Undefined, [cost |-> 8], [cost |-> 12]}

VerifyInputs ==
    {bcryptHash(p, 10) : p \in Passwords}
    \cup { <<"$", "2", "b", "$", "1", "0", "$", "p1">>,
           <<"$", "2", "y", "$", "1", "x", "$", "p1">>,
           <<"n", "o", "t", "-", "a", "-", "h", "a", "s", "h">> }

\* Hashes already handed to a caller.
Results ==
    {calls[i].promise.value :
        i \in {j \in DOMAIN calls : /\ calls[j].op = "hash"
                                    /\ calls[j].promise.state = "fulfilled"}}

\* ------------------------------------------------- synchronous operations

\* exports.getInfo(h) (index.js:206).
GetInfoCall(h) ==
    /\ sync' = [fn |-> "getInfo", hash |-> h, algo |-> << >>, options |-> Undefined,
                policy |-> globalOptions.bcrypt, outcome |-> getInfo(h)]
    /\ UNCHANGED <<globalOptions, assigned, calls>>

\* exports.needsRehash(h, algo, options) (index.js:238).
NeedsRehashCall(h, algo, options) ==
    /\ sync' = [fn |-> "needsRehash", hash |-> h, algo |-> algo, options |-> options,
                policy |-> globalOptions.bcrypt,
                outcome |-> needsRehash(h, algo, options)]
    /\ UNCHANGED <<globalOptions, assigned, calls>>

\* ---------------------------------------------------------- specifications

Init ==
    /\ globalOptions = [bcrypt |-> [cost |-> 10]]
    /\ assigned = [cost |-> 10]
    /\ calls = [i \in 1..NCalls |-> NoCall]
    /\ sync = [fn |-> "none", hash |-> << >>, algo |-> << >>, options |-> Undefined,
               policy |-> [cost |-> 10], outcome |-> Throw("none")]

\* Every argument combination of hash and verify, NSlots calls outstanding.
Next ==
    \/ \E c \in PolicyCosts : SetCost(c)
    \/ DeleteCost
    \/ \E i \in 1..NSlots, o \in HashOptionArgs, a \in HashAlgoArgs, s \in Styles :
           HashCall(i, "p1", a, o, s)
    \/ \E i \in 1..NSlots, h \in VerifyInputs, s \in Styles :
           VerifyCall(i, "p1", h, s)
    \/ \E i \in 1..NSlots : Settle(i)

Spec == Init /\ [][Next]_vars

\* getInfo and needsRehash on arbitrary strings, under a changing policy.
NextSync ==
    \/ \E c \in PolicyCosts : SetCost(c)
    \/ DeleteCost
    \/ \E h \in HashInputs : GetInfoCall(h)
    \/ \E h \in HashInputs, a \in AlgoArgs, o \in OptionArgs : NeedsRehashCall(h, a, o)

SpecSync == Init /\ [][NextSync]_vars

\* needsRehash(h) with the defaults, under a changing policy.
NextPolicy ==
    \/ \E c \in PolicyCosts : SetCost(c)
    \/ DeleteCost
    \/ \E h \in HashInputs : NeedsRehashCall(h, << >>, Undefined)

SpecPolicy == Init /\ [][NextPolicy]_vars

\* NCalls concurrent calls with default arguments: hashes of any password,
\* verifications of the hashes produced.
NextConc ==
    \/ \E i \in 1..NCalls, p \in Passwords : HashCall(i, p, << >>, Undefined, "promise")
    \/ \E i \in 1..NCalls, p \in Passwords, h \in Results : VerifyCall(i, p, h, "promise")
    \/ \E i \in 1..NCalls : Settle(i)

\* The primitive finishes every job it was given (a thread pool, or the event
\* loop's timers): weak fairness of each call's settlement.
SpecConc ==
    /\ Init
    /\ [][NextConc]_vars
    /\ \A i \in 1..NCalls : WF_vars(Settle(i))

\* ============================================================== properties

\* The grammar of a self-describing hash string, stated on the string itself:
\* '$', a non-empty token without '$', '$'.
MatchesGrammar(h) ==
    \E j \in 3..Len(h) :
        /\ h[1] = "$"
        /\ h[j] = "$"
        /\ \A k \in 2..(j - 1) : h[k] # "$"

LeadingToken(h) ==
    LET j == CHOOSE n \in 3..Len(h) : h[n] = "$" /\ \A k \in 2..(n - 1) : h[k] # "$"
    IN  [k \in 1..(j - 2) |-> h[k + 1]]

BcryptTags == {<<"2">>, <<"2", "a">>, <<"2", "x">>, <<"2", "y">>}

\* The token is followed by one or more decimal digits and a '$'.
HasDecimalCost(h) ==
    LET j == Len(LeadingToken(h)) + 2
    IN  \E m \in (j + 2)..Len(h) :
            /\ h[m] = "$"
            /\ \A k \in (j + 1)..(m - 1) : h[k] \in {"0", "1", "2", "3", "4", "5", "6", "7", "8", "9"}

IsBcryptHash(h) == MatchesGrammar(h) /\ LeadingToken(h) \in BcryptTags /\ HasDecimalCost(h)

HashCalls == {i \in DOMAIN calls : calls[i].op = "hash"}

VerifyCalls == {i \in DOMAIN calls : calls[i].op = "verify"}

Fulfilled(i) == calls[i].promise.state = "fulfilled"

\* The cost field of a produced hash, as getInfo decodes it.
DecodedCost(h) == getInfo(h).value.options.cost

\* Call i was issued by this step.
IssuedNow(i) ==
    /\ calls'[i] # calls[i]
    /\ calls'[i].op # "none"
    /\ IF calls[i].op = "none" THEN TRUE ELSE calls[i].promise.state # "pending"

SyncFailure(c) ==
    \/ c.op = "hash" /\ effectiveAlgo(c.algo) # "bcrypt"
    \/ c.op = "verify" /\ ~IsBcryptHash(c.hash)

\* C3: every failure arising synchronously inside hash or verify is delivered
\* through the asynchronous channel (the promise is rejected, or the callback
\* gets the error in its error slot); the call itself never throws and the
\* primitive is not invoked.
C3_SyncFailuresAreDelivered ==
    \A i \in DOMAIN calls :
        (calls[i].op # "none" /\ SyncFailure(calls[i]))
        => /\ ~calls[i].escaped
           /\ calls[i].job = << >>
           /\ calls[i].promise.state = "rejected"
           /\ calls[i].delivered =
                [to |-> IF calls[i].style = "callback" THEN "callback" ELSE "promise",
                 slot |-> "error"]

\* verify('not-a-hash') with a callback: the callback got the error.
C3_Witness ==
    \E i \in VerifyCalls :
        /\ ~MatchesGrammar(calls[i].hash)
        /\ calls[i].style = "callback"
        /\ calls[i].delivered = [to |-> "callback", slot |-> "error"]
        /\ calls[i].promise.error = "invalid hash"

\* ------------------------------------------------------------------- C4
\* C4: decoding the hash that hash(password, 'bcrypt', {cost: 12}) produces
\* reports a cost of 12.
C4_CallerCostIsEmbedded ==
    \A i \in HashCalls :
        (calls[i].algo = <<"bcrypt">> /\ calls[i].given = [cost |-> 12] /\ Fulfilled(i))
        => DecodedCost(calls[i].promise.value) = 12

\* ------------------------------------------------------------------ C10
\* C10: no call of hash or verify, successful or not, changes the policy
\* store or the options object the caller passed: the store holds what the
\* embedder last assigned, and the caller's object is as it was given.
C10_CallsLeaveStateAlone ==
    /\ globalOptions.bcrypt = assigned
    /\ \A i \in DOMAIN calls :
           calls[i].op # "none" => calls[i].options = calls[i].given

\* A bcrypt hash call that was given an options object whose cost differs
\* from the store's has been merged and has completed.
C10_Witness ==
    \E i \in HashCalls :
        /\ Fulfilled(i)
        /\ calls[i].given = [cost |-> 8]
        /\ calls[i].options = [cost |-> 8]
        /\ calls[i].job[1].cost = <<12>>
        /\ globalOptions.bcrypt = [cost |-> 12]

\* ------------------------------------------------------------------- C7
Pending(i) == IF calls[i].op = "none" THEN FALSE ELSE calls[i].promise.state = "pending"

\* C7: concurrent hash calls, settled by the primitive in any order, all
\* complete; each caller receives the hash of its own password and of no other
\* password; verifying a password against the hash made from it yields true.
C7_ConcurrentIndependence ==
    /\ [](\A i \in HashCalls :
            Fulfilled(i)
            => \A p \in Passwords :
                   bcryptCompare(p, calls[i].promise.value) <=> (p = calls[i].password))
    /\ [](\A i \in HashCalls, j \in VerifyCalls :
            (/\ Fulfilled(i)
             /\ calls[j].hash = calls[i].promise.value
             /\ calls[j].password = calls[i].password
             /\ ~Pending(j))
            => /\ Fulfilled(j)
               /\ calls[j].promise.value = TRUE)
    /\ \A i \in 1..NCalls : Pending(i) ~> ~Pending(i)

\* Two hash calls with distinct passwords, one issued while the other was
\* outstanding, have both completed.
C7_Witness ==
    \E i \in HashCalls, j \in HashCalls :
        /\ i # j
        /\ calls[i].password # calls[j].password
        /\ calls[j].overlapped
        /\ Fulfilled(i)
        /\ Fulfilled(j)
        /\ bcryptCompare(calls[i].password, calls[i].promise.value)
        /\ bcryptCompare(calls[j].password, calls[j].promise.value)

\* ------------------------------------------------------------------- C2
\* The floor the claim states: max(options.cost, G), an omitted options.cost
\* leaving G.
MaxFloor(options, G) ==
    IF "cost" \in DOMAIN options /\ options.cost > G THEN options.cost ELSE G

\* The floor the code uses: options.cost when given and not zero, otherwise G.
CallerFloor(options, G) ==
    IF "cost" \in DOMAIN options /\ options.cost # 0 THEN options.cost ELSE G

\* A needsRehash call on a bcrypt hash string with effective algorithm bcrypt,
\* made while the store held a cost.
BcryptRehashCase ==
    /\ sync.fn = "needsRehash"
    /\ effectiveAlgo(sync.algo) = "bcrypt"
    /\ IsBcryptHash(sync.hash)
    /\ "cost" \in DOMAIN sync.policy

\* C2 as stated: needsRehash(h, 'bcrypt', options) is true iff the tag of h is
\* not '2y' or its cost is less than max(options.cost, G).
C2_FloorIsMax ==
    BcryptRehashCase
    => sync.outcome =
         Return(\/ LeadingToken(sync.hash) # <<"2", "y">>
                \/ DecodedCost(sync.hash) < MaxFloor(sync.options, sync.policy.cost))

\* C2 amended: needsRehash(h, 'bcrypt', options) is true iff the tag of h is
\* not '2y' or its cost is less than options.cost when options.cost is given
\* and not zero, and less than G otherwise.
C2_FloorIsCallerElsePolicy ==
    BcryptRehashCase
    => sync.outcome =
         Return(\/ LeadingToken(sync.hash) # <<"2", "y">>
                \/ DecodedCost(sync.hash) < CallerFloor(sync.options, sync.policy.cost))

\* A '2y' hash of cost 10, caller cost 8, policy cost 12: reported fresh.
C2_Witness ==
    /\ BcryptRehashCase
    /\ LeadingToken(sync.hash) = <<"2", "y">>
    /\ DecodedCost(sync.hash) = 10
    /\ sync.options = [cost |-> 8]
    /\ sync.policy = [cost |-> 12]
    /\ sync.outcome = Return(FALSE)

\* ------------------------------------------------------------------- C5
\* needsRehash(h), the algorithm and the options omitted, under a store.
Stale(store, h) == needsRehashIn(store, h, << >>, Undefined)

HasCost(store) == "cost" \in DOMAIN store.bcrypt

\* C5: if needsRehash(h) is false and the embedder then assigns a cost above
\* the decoded cost of h, needsRehash(h) is true; and a raise of the cost never
\* turns a stale hash into a fresh one.
C5_StalenessMonotone ==
    [][\A h \in HashInputs :
        /\ (/\ Stale(globalOptions, h) = Return(FALSE)
            /\ HasCost(globalOptions')
            /\ globalOptions'.bcrypt.cost > DecodedCost(h))
           => Stale(globalOptions', h) = Return(TRUE)
        /\ (/\ Stale(globalOptions, h) = Return(TRUE)
            /\ HasCost(globalOptions)
            /\ HasCost(globalOptions')
            /\ globalOptions'.bcrypt.cost >= globalOptions.bcrypt.cost)
           => Stale(globalOptions', h) = Return(TRUE)]_vars

\* A '2y' hash of cost 10, fresh under the initial policy (cost 10), was found
\* stale once the policy cost was 12.
C5_Witness ==
    /\ sync.fn = "needsRehash"
    /\ sync.algo = << >>
    /\ sync.options = Undefined
    /\ IsBcryptHash(sync.hash)
    /\ LeadingToken(sync.hash) = <<"2", "y">>
    /\ DecodedCost(sync.hash) = 10
    /\ sync.policy = [cost |-> 12]
    /\ sync.outcome = Return(TRUE)
    /\ globalOptions.bcrypt = [cost |-> 12]

\* ------------------------------------------------------------------- C6
UnknownTagCase == MatchesGrammar(sync.hash) /\ LeadingToken(sync.hash) \notin BcryptTags

\* C6: on a structurally valid hash whose tag is none of '2', '2a', '2x',
\* '2y', getInfo returns algorithm 'unknown' with empty options and
\* needsRehash does not raise; needsRehash returns true when the effective
\* algorithm is not 'unknown' (so with the algorithm omitted), and false when
\* it is 'unknown', which has no freshness check.
C6_UnknownTagTolerated ==
    UnknownTagCase
    => /\ sync.fn = "getInfo"
          => /\ sync.outcome.kind = "return"
             /\ sync.outcome.value.algo = "unknown"
             /\ sync.outcome.value.options = EmptyObject
       /\ sync.fn = "needsRehash"
          => sync.outcome = Return(effectiveAlgo(sync.algo) # "unknown")

\* needsRehash('$2b$10$...') with the defaults returned true.
C6_Witness ==
    /\ UnknownTagCase
    /\ sync.fn = "needsRehash"
    /\ sync.algo = << >>
    /\ sync.options = Undefined
    /\ sync.outcome = Return(TRUE)

\* ------------------------------------------------------------------- C8
\* C8: getInfo and needsRehash return only for a string that matches the
\* grammar; for any other string they raise the invalid-hash error, and for a
\* bcrypt tag without a decimal cost field they raise as well.
C8_InvalidHashesAreRejected ==
    sync.fn # "none"
    => /\ sync.outcome.kind = "return" => MatchesGrammar(sync.hash)
       /\ ~MatchesGrammar(sync.hash) => sync.outcome = Throw("invalid hash")
       /\ (/\ MatchesGrammar(sync.hash)
           /\ LeadingToken(sync.hash) \in BcryptTags
           /\ ~HasDecimalCost(sync.hash))
          => sync.outcome = Throw("invalid hash")

\* getInfo on a '2y' hash whose cost field is '1x' raised.
C8_Witness ==
    /\ sync.fn = "getInfo"
    /\ MatchesGrammar(sync.hash)
    /\ LeadingToken(sync.hash) = <<"2", "y">>
    /\ ~HasDecimalCost(sync.hash)
    /\ Len(sync.hash) > 5
    /\ sync.outcome = Throw("invalid hash")

\* ------------------------------------------------------------------- C9
GetInfoReturned == sync.fn = "getInfo" /\ sync.outcome.kind = "return"

\* C9 as stated: the tag of a returned record is empty whenever its algorithm
\* is unknown.
C9_TagEmptyWhenUnknown ==
    (GetInfoReturned /\ sync.outcome.value.algo = "unknown")
    => sync.outcome.value.id = << >>

\* C9 amended: the tag of a returned record is the placeholder 'unknown'
\* whenever its algorithm is unknown; otherwise the algorithm is recognised
\* and the tag is the token decoded from the hash string.
C9_TagIsPlaceholderWhenUnknown ==
    GetInfoReturned
    => IF sync.outcome.value.algo = "unknown"
       THEN sync.outcome.value.id = <<"u", "n", "k", "n", "o", "w", "n">>
       ELSE /\ sync.outcome.value.algo = "bcrypt"
            /\ LeadingToken(sync.hash) \in BcryptTags
            /\ sync.outcome.value.id = LeadingToken(sync.hash)

\* getInfo('$2b$10$...') returned algorithm 'unknown' with tag 'unknown'.
C9_Witness ==
    /\ GetInfoReturned
    /\ LeadingToken(sync.hash) = <<"2", "b">>
    /\ sync.outcome.value.algo = "unknown"
    /\ sync.outcome.value.id = <<"u", "n", "k", "n", "o", "w", "n">>

=============================================================================
